---- MODULE Spec2Model ----
(***************************************************************************)
(* Model of app/main.py: the FastAPI item service.  The state is the       *)
(* module-level dictionary items_db; every route handler is one action.   *)
(* Handlers are `async def` without any await, so under the event loop     *)
(* each one runs to completion: Spec takes one step per request.           *)
(* SpecThreads runs create_item as its two statements (line 80, line 81)   *)
(* on two threads with no lock, the host the source does not assume.       *)
(***************************************************************************)
EXTENDS Integers, Sequences, FiniteSets

\* ---------------------------------------------------------------- bounds

\* Largest ID a create may assign in the model (create is disabled above it).
MaxId == 3

\* ------------------------------------------------------------ JSON values

JAbsent == [kind |-> "absent", num |-> 0, str |-> ""]
JNull == [kind |-> "null", num |-> 0, str |-> ""]
JNum(n) == [kind |-> "num", num |-> n, str |-> ""]
JStr(s) == [kind |-> "str", num |-> 0, str |-> s]

\* Optional[T]: None is the empty tuple, a value x is <<x>>.
None == <<>>
Some(x) == <<x>>

\* Request bodies sent to POST /items and PUT /items/{id}: the valid ones, with
\* each optional field present or left out, and the bodies the test suite's
\* TestValidation sends (a required field missing, a price that is no number).
Names == {"a"}
ValidBodies ==
  [name : {JStr(s) : s \in Names},
   description : {JAbsent, JStr("d")},
   price : {JNum(1)},
   tax : {JAbsent, JNum(2)}]

FullBody ==
  [name |-> JStr("a"), description |-> JStr("d"), price |-> JNum(1), tax |-> JNum(2)]

InvalidBodies ==
  {[FullBody EXCEPT !.name = JAbsent],
   [FullBody EXCEPT !.price = JAbsent],
   [FullBody EXCEPT !.price = JStr("not-a-number")],
   [FullBody EXCEPT !.name = JAbsent, !.price = JAbsent, !.tax = JAbsent]}

Bodies == ValidBodies \cup InvalidBodies

\* Path parameters tried by the clients: 0 and MaxId + 1 are never keys.
Ids == 0 .. (MaxId + 1)

\* ------------------------------------------------------- class Item

\* Pydantic's check of a body against Item: name a required str, price a
\* required float, description an optional str, tax an optional float.
ValidPriceOptional(body) ==
  /\ body.name.kind = "str"
  /\ body.price.kind \in {"num", "absent", "null"}
  /\ body.description.kind \in {"str", "absent", "null"}
  /\ body.tax.kind \in {"num", "absent", "null"}

Valid(body) ==
  /\ body.name.kind = "str"
  /\ body.price.kind = "num"
  /\ body.description.kind \in {"str", "absent", "null"}
  /\ body.tax.kind \in {"num", "absent", "null"}

\* The Item built from a valid body: a field left out takes its default None.
ParseItemNoTax(body) ==
  [name |-> body.name.str,
   description |-> IF body.description.kind = "str"
                   THEN Some(body.description.str) ELSE None,
   price |-> body.price.num,
   tax |-> None]

ParseItem(body) ==
  [name |-> body.name.str,
   description |-> IF body.description.kind = "str"
                   THEN Some(body.description.str) ELSE None,
   price |-> body.price.num,
   tax |-> IF body.tax.kind = "num" THEN Some(body.tax.num) ELSE None]

\* response_model=Item: all four fields are written, None as null.
Serialize(item) ==
  [name |-> JStr(item.name),
   description |-> IF item.description = None THEN JNull
                   ELSE JStr(item.description[1]),
   price |-> JNum(item.price),
   tax |-> IF item.tax = None THEN JNull ELSE JNum(item.tax[1])]

Items == {ParseItem(b) : b \in {x \in Bodies : Valid(x)}}

\* ------------------------------------------------- Dict[int, Item]

\* A Python dict: entries [k, v] in insertion order, keys unique.
Keys(d) == {d[i].k : i \in DOMAIN d}

\* k in d
Contains(d, k) == \E i \in DOMAIN d : d[i].k = k

\* d[k]
GetItem(d, k) == d[CHOOSE i \in DOMAIN d : d[i].k = k].v

\* d[k] = v: an existing key keeps its position, a new key goes last.
SetItem(d, k, v) ==
  IF Contains(d, k)
  THEN [i \in DOMAIN d |-> IF d[i].k = k THEN [k |-> k, v |-> v] ELSE d[i]]
  ELSE Append(d, [k |-> k, v |-> v])

\* del d[k]
DelItem(d, k) == SelectSeq(d, LAMBDA e : e.k # k)

\* list(d.values())
Values(d) == [i \in DOMAIN d |-> d[i].v]

\* max(d.keys(), default=dflt): one pass over the keys in iteration order.
RECURSIVE MaxFrom(_, _, _)
MaxFrom(d, i, best) ==
  IF i > Len(d) THEN best
  ELSE MaxFrom(d, i + 1, IF d[i].k > best THEN d[i].k ELSE best)

RECURSIVE MinFrom(_, _, _)
MinFrom(d, i, best) ==
  IF i > Len(d) THEN best
  ELSE MinFrom(d, i + 1, IF d[i].k < best THEN d[i].k ELSE best)

MinKeys(d, dflt) == IF Len(d) = 0 THEN dflt ELSE MinFrom(d, 2, d[1].k)

MaxKeys(d, dflt) == IF Len(d) = 0 THEN dflt ELSE MaxFrom(d, 2, d[1].k)

\* ------------------------------------------------------------ responses

NoItem == [name |-> JNull, description |-> JNull, price |-> JNull, tax |-> JNull]
NoBody == [name |-> JAbsent, description |-> JAbsent, price |-> JAbsent, tax |-> JAbsent]
NoLog == [event |-> "", id |-> 0, name |-> ""]

Response(status, kind, item, items, text) ==
  [status |-> status, kind |-> kind, item |-> item, items |-> items, text |-> text]

ItemResponse(status, item) == Response(status, "item", Serialize(item), <<>>, "")
NotFound == Response(404, "detail", NoItem, <<>>, "Item not found")
ValidationError == Response(422, "detail", NoItem, <<>>, "validation error")
\* An exception that is no HTTPException (a KeyError) is answered with 500.
InternalError == Response(500, "detail", NoItem, <<>>, "Internal Server Error")

\* What a handler does: the dictionary afterwards, the response, the log line.
Outcome(db, resp, log) == [db |-> db, resp |-> resp, log |-> log]

\* ------------------------------------------------------------- handlers

\* GET /
root(db) ==
  Outcome(db, Response(200, "root", NoItem, <<>>,
                       "Welcome to Secure Docker CI Pipeline Demo"), NoLog)

\* GET /health: os.getenv("ENVIRONMENT", "production")
health_check(db, env) ==
  Outcome(db, Response(200, "health", NoItem, <<>>,
                       IF env = None THEN "production" ELSE env[1]), NoLog)

\* GET /items
list_items_distinct(db) ==
  LET vals == Values(db)
      keep == SelectSeq([i \in DOMAIN vals |-> i],
                        LAMBDA i : \A j \in 1 .. (i - 1) : vals[j] # vals[i])
  IN Outcome(db, Response(200, "list", NoItem,
                          [i \in DOMAIN keep |-> Serialize(vals[keep[i]])], ""),
             NoLog)

list_items(db) ==
  LET vals == Values(db)
  IN Outcome(db, Response(200, "list", NoItem,
                          [i \in DOMAIN vals |-> Serialize(vals[i])], ""),
             NoLog)

\* GET /items/{item_id}
get_item_range(db, item_id) ==
  IF item_id > Len(db)
  THEN Outcome(db, NotFound, NoLog)
  ELSE IF Contains(db, item_id)
       THEN Outcome(db, ItemResponse(200, GetItem(db, item_id)), NoLog)
       ELSE Outcome(db, InternalError, NoLog)

get_item(db, item_id) ==
  IF ~Contains(db, item_id)
  THEN Outcome(db, NotFound, NoLog)
  ELSE Outcome(db, ItemResponse(200, GetItem(db, item_id)), NoLog)

\* create_item, line 80: new_id = max(items_db.keys(), default=0) + 1
new_id_len(db) == Len(db) + 1

new_id_default1(db) == MaxKeys(db, 1) + 1

new_id(db) == MaxKeys(db, 0) + 1

\* create_item, lines 81-83: store under id, log, return the item.
create_insert(db, id, item) ==
  Outcome(SetItem(db, id, item), ItemResponse(201, item),
          [event |-> "Created", id |-> id, name |-> item.name])

\* POST /items with a body that passed validation
create_item(db, item) == create_insert(db, new_id(db), item)

\* PUT /items/{item_id} with a body that passed validation
update_item_merge(db, item_id, item) ==
  IF ~Contains(db, item_id)
  THEN Outcome(db, NotFound, NoLog)
  ELSE LET old == GetItem(db, item_id)
           new == [item EXCEPT
                     !.description = IF item.description = None
                                     THEN old.description ELSE item.description,
                     !.tax = IF item.tax = None THEN old.tax ELSE item.tax]
       IN Outcome(SetItem(db, item_id, new), ItemResponse(200, new),
                  [event |-> "Updated", id |-> item_id, name |-> new.name])

update_item(db, item_id, item) ==
  IF ~Contains(db, item_id)
  THEN Outcome(db, NotFound, NoLog)
  ELSE Outcome(SetItem(db, item_id, item), ItemResponse(200, item),
               [event |-> "Updated", id |-> item_id, name |-> item.name])

\* DELETE /items/{item_id}
delete_item_keep(db, item_id) ==
  IF ~Contains(db, item_id)
  THEN Outcome(db, NotFound, NoLog)
  ELSE Outcome(db, Response(200, "message", NoItem, <<>>,
                            "Item deleted successfully"),
               [event |-> "Deleted", id |-> item_id, name |-> ""])

delete_item(db, item_id) ==
  IF ~Contains(db, item_id)
  THEN Outcome(db, NotFound, NoLog)
  ELSE Outcome(DelItem(db, item_id),
               Response(200, "message", NoItem, <<>>,
                        "Item deleted successfully"),
               [event |-> "Deleted", id |-> item_id, name |-> ""])

\* The routes that take `item: Item`: the body is validated before the handler
\* is called, and a body that fails never reaches it.
post_items(db, body) ==
  IF Valid(body) THEN create_item(db, ParseItem(body))
  ELSE Outcome(db, ValidationError, NoLog)

put_items(db, item_id, body) ==
  IF Valid(body) THEN update_item(db, item_id, ParseItem(body))
  ELSE Outcome(db, ValidationError, NoLog)

\* ---------------------------------------------------------------- state

Threads == {1, 2}

VARIABLES
  items_db,     \* the module-level dictionary
  last,         \* the request served last: what was asked, answered and logged
  run,          \* history: the items created since the store was last empty
  pure,         \* history: nothing but create has changed the store since then
  net,          \* history: successful creates minus successful deletes
  pc,           \* SpecThreads: where each thread is inside create_item
  loc,          \* SpecThreads: each thread's new_id and request body
  raced         \* history: a thread ran while another was inside create_item

vars == <<items_db, last, run, pure, net, pc, loc, raced>>

\* old: the item a successful update or delete found under id, else None.
Exchange(op, id, req, out, old) ==
  [op |-> op, id |-> id, req |-> req, resp |-> out.resp, log |-> out.log,
   old |-> old]

Found(db, op, id, out) ==
  IF op \in {"update", "delete"} /\ out.resp.status = 200 /\ Contains(db, id)
  THEN Some(GetItem(db, id)) ELSE None

NoOutcome == Outcome(<<>>, Response(0, "none", NoItem, <<>>, ""), NoLog)

Init ==
  /\ items_db = <<>>
  /\ last = Exchange("none", 0, NoBody, NoOutcome, None)
  /\ run = <<>>
  /\ pure = TRUE
  /\ net = 0
  /\ pc = [t \in Threads |-> "idle"]
  /\ loc = [t \in Threads |-> [new_id |-> 0, body |-> NoBody]]
  /\ raced = FALSE

\* The history variables after a request answered with `out`.
History(op, req, out) ==
  LET created == op = "create" /\ out.resp.status = 201
      deleted == op = "delete" /\ out.resp.status = 200
      updated == op = "update" /\ out.resp.status = 200
  IN /\ net' = net + (IF created THEN 1 ELSE 0) - (IF deleted THEN 1 ELSE 0)
     /\ pure' = (pure /\ ~deleted /\ ~updated)
     /\ run' = IF ~pure' THEN <<>>
               ELSE IF created THEN Append(run, ParseItem(req)) ELSE run

Serve(op, id, req, out) ==
  /\ items_db' = out.db
  /\ last' = Exchange(op, id, req, out, Found(items_db, op, id, out))
  /\ History(op, req, out)
  /\ UNCHANGED <<pc, loc, raced>>

\* ------------------------------------------- one request at a time (Spec)

Root == Serve("root", 0, NoBody, root(items_db))

\* The process's ENVIRONMENT variable is read at each request: unset or set.
Environments == {None, Some("staging")}

Health ==
  \E env \in Environments : Serve("health", 0, NoBody, health_check(items_db, env))

List == Serve("list", 0, NoBody, list_items(items_db))

Get == \E id \in Ids : Serve("get", id, NoBody, get_item(items_db, id))

Create ==
  \E body \in Bodies :
    /\ Valid(body) => new_id(items_db) <= MaxId
    /\ Serve("create", 0, body, post_items(items_db, body))

Update ==
  \E id \in Ids, body \in Bodies :
    Serve("update", id, body, put_items(items_db, id, body))

Delete == \E id \in Ids : Serve("delete", id, NoBody, delete_item(items_db, id))

\* The test suite's reset_db fixture: items_db.clear()
Clear ==
  /\ items_db' = <<>>
  /\ last' = Exchange("clear", 0, NoBody, NoOutcome, None)
  /\ run' = <<>>
  /\ pure' = TRUE
  /\ net' = 0
  /\ UNCHANGED <<pc, loc, raced>>

Next == Root \/ Health \/ List \/ Get \/ Create \/ Update \/ Delete \/ Clear

Spec == Init /\ [][Next]_vars

\* --------------------------------- two threads, no lock (SpecThreads)

Others(t) == Threads \ {t}

\* Thread t takes a step while another thread is between lines 80 and 81.
Overlaps(t) == \E u \in Others(t) : pc[u] = "insert"

\* The bodies the two threads post: valid, and distinct so that a lost insert
\* shows.
ThreadBodies == {b \in ValidBodies : b.tax = JAbsent}

\* create_item up to line 80: the body is validated and new_id computed.  The
\* last guard bounds creates minus deletes, which lost inserts let grow.
TCreateRead(t) ==
  \E body \in ThreadBodies :
    /\ pc[t] = "idle"
    /\ new_id(items_db) <= MaxId
    /\ net + Cardinality({u \in Threads : pc[u] = "insert"}) < MaxId
    /\ pc' = [pc EXCEPT ![t] = "insert"]
    /\ loc' = [loc EXCEPT ![t] = [new_id |-> new_id(items_db), body |-> body]]
    /\ raced' = (raced \/ Overlaps(t))
    /\ UNCHANGED <<items_db, last, run, pure, net>>

\* create_item from line 81: the insert under the new_id computed before.
TCreateInsert(t) ==
  /\ pc[t] = "insert"
  /\ LET out == create_insert(items_db, loc[t].new_id, ParseItem(loc[t].body))
     IN /\ items_db' = out.db
        /\ last' = Exchange("create", 0, loc[t].body, out, None)
        /\ History("create", loc[t].body, out)
  /\ pc' = [pc EXCEPT ![t] = "idle"]
  /\ loc' = [loc EXCEPT ![t] = [new_id |-> 0, body |-> NoBody]]
  /\ raced' = (raced \/ Overlaps(t))

\* delete_item on thread t, between the other thread's statements.
TDelete(t) ==
  \E id \in Ids :
    /\ pc[t] = "idle"
    /\ LET out == delete_item(items_db, id)
       IN /\ items_db' = out.db
          /\ last' = Exchange("delete", id, NoBody, out,
                              Found(items_db, "delete", id, out))
          /\ History("delete", NoBody, out)
    /\ raced' = (raced \/ Overlaps(t))
    /\ UNCHANGED <<pc, loc>>

NextThreads == \E t \in Threads : TCreateRead(t) \/ TCreateInsert(t) \/ TDelete(t)

SpecThreads == Init /\ [][NextThreads]_vars

\* --------------------------------------------------------------- claims

\* The JSON a client expects back for a body it sent: the body, with the
\* fields it left out as null.
Expected(body) ==
  [f \in DOMAIN body |-> IF body[f] = JAbsent THEN JNull ELSE body[f]]

\* The largest element of a set of IDs, 0 for the empty set.
Largest(S) == IF S = {} THEN 0 ELSE CHOOSE m \in S : \A k \in S : k <= m

Succeeded(op, status) == last.op = op /\ last.resp.status = status

\* C1: from an empty store, N creates in a row with no delete or update in
\* between are given the IDs 1..N in order: the store's keys are exactly 1..N,
\* the k-th item created is the one under ID k, and the N-th create logged N.
C1_SequentialIds ==
  pure =>
    /\ Keys(items_db) = 1 .. Len(run)
    /\ Len(items_db) = Len(run)
    /\ \A k \in 1 .. Len(run) : GetItem(items_db, k) = run[k]
    /\ Succeeded("create", 201) => last.log.id = Len(run)

C1_Witness == pure /\ Len(run) >= 3 /\ Succeeded("create", 201)

\* C2: in every reachable store, for every id that is no key, get, update with
\* any valid body and delete answer 404, whatever else the store holds; and a
\* get or valid update just served for an id that is no key was answered 404.
C2_AbsentIs404 ==
  /\ \A id \in Ids \ Keys(items_db) :
       /\ get_item(items_db, id).resp.status = 404
       /\ delete_item(items_db, id).resp.status = 404
       /\ \A b \in ValidBodies : put_items(items_db, id, b).resp.status = 404
  /\ ( /\ last.op = "get" \/ (last.op = "update" /\ last.req \in ValidBodies)
       /\ last.id \notin Keys(items_db) )
     => last.resp.status = 404

C2_Witness ==
  /\ Succeeded("update", 404)
  /\ last.req \in ValidBodies
  /\ Len(items_db) >= 2
  /\ last.id \notin Keys(items_db)

\* C3: after a successful create, the response is the posted item with the
\* optional fields left out as null, and a get of the ID the create logged
\* answers 200 with that same record, in all four fields.
C3_CreateGetRoundTrip ==
  Succeeded("create", 201) =>
    /\ last.resp.item = Expected(last.req)
    /\ get_item(items_db, last.log.id).resp.status = 200
    /\ get_item(items_db, last.log.id).resp.item = Expected(last.req)

C3_Witness ==
  /\ Succeeded("create", 201)
  /\ last.req.tax # JAbsent
  /\ last.req.description = JAbsent
  /\ Len(items_db) >= 2

\* C4: for every id in the store and every valid body, update answers 200 and
\* a get of id right after returns exactly the new item, nothing kept from the
\* old record; and the update just served left the store in that state.
C4_UpdateReplaces ==
  /\ \A id \in Keys(items_db), b \in ValidBodies :
       LET u == put_items(items_db, id, b)
       IN /\ u.resp.status = 200
          /\ u.resp.item = Expected(b)
          /\ get_item(u.db, id).resp.status = 200
          /\ get_item(u.db, id).resp.item = Expected(b)
  /\ Succeeded("update", 200) =>
       /\ get_item(items_db, last.id).resp.status = 200
       /\ get_item(items_db, last.id).resp.item = Expected(last.req)

C4_Witness ==
  /\ Succeeded("update", 200)
  /\ last.req.description = JAbsent
  /\ last.req.tax = JAbsent
  /\ last.old # None
  /\ last.old[1].description # None
  /\ last.old[1].tax # None

\* C5: for every id in the store, delete answers 200 with the confirmation
\* message, and a get or a second delete of id right after answers 404; and
\* after the delete just served, both answer 404.
C5_DeleteThenGet404 ==
  /\ \A id \in Keys(items_db) :
       LET d == delete_item(items_db, id)
       IN /\ d.resp.status = 200
          /\ d.resp.text = "Item deleted successfully"
          /\ get_item(d.db, id).resp.status = 404
          /\ delete_item(d.db, id).resp.status = 404
  /\ Succeeded("delete", 200) =>
       /\ get_item(items_db, last.id).resp.status = 404
       /\ delete_item(items_db, last.id).resp.status = 404

C5_Witness == Succeeded("delete", 200) /\ last.old # None /\ Len(items_db) >= 1

\* A body with no name, no price, or a price that is no number.
Defective(body) ==
  \/ body.name = JAbsent
  \/ body.price = JAbsent
  \/ body.price.kind \notin {"num", "absent"}

\* C6: in every store state a create whose body lacks name, lacks price or has
\* a non-numeric price is answered 422 and leaves the store as it was.
C6_Invalid422 ==
  /\ \A b \in Bodies :
       Defective(b) =>
         /\ post_items(items_db, b).resp.status = 422
         /\ post_items(items_db, b).db = items_db
  /\ (last.op = "create" /\ Defective(last.req)) =>
       /\ last.resp.status = 422
       /\ last.log = NoLog

C6_Witness ==
  /\ Succeeded("create", 422)
  /\ last.req.price.kind = "str"
  /\ Len(items_db) >= 1

\* How often x occurs in the sequence q.
Count(q, x) == Cardinality({i \in DOMAIN q : q[i] = x})

\* C7: in every store state list answers 200 with exactly the stored items, one
\* per ID: nothing for the empty store, and after N creates in a row on an
\* empty store the N items created.
C7_ListExactly ==
  LET r == list_items(items_db).resp
  IN /\ r.status = 200
     /\ Len(r.items) = Cardinality(Keys(items_db))
     /\ \A v \in Items :
          Count(r.items, Serialize(v))
            = Cardinality({k \in Keys(items_db) : GetItem(items_db, k) = v})
     /\ \A i \in DOMAIN r.items : \E v \in Items : r.items[i] = Serialize(v)
     /\ items_db = <<>> => r.items = <<>>
     /\ pure =>
          /\ Len(r.items) = Len(run)
          /\ \A v \in Items : Count(r.items, Serialize(v)) = Count(run, v)
     /\ last.op = "list" => last.resp = r

C7_Witness ==
  /\ last.op = "list"
  /\ Len(last.resp.items) >= 3
  /\ last.resp.items[1] = last.resp.items[2]
  /\ last.resp.items[3] # last.resp.items[1]

\* The last request was a successful delete of the ID that was the highest.
DeletedHighest ==
  Succeeded("delete", 200) /\ \A k \in Keys(items_db) : k < last.id

\* The last request was a successful delete of an ID that was not the highest.
DeletedLower ==
  Succeeded("delete", 200) /\ \E k \in Keys(items_db) : k > last.id

\* create stores the new item under (largest ID in the store, or 0) + 1.
CreateUsesMaxPlusOne ==
  /\ \A b \in ValidBodies :
       LET c == post_items(items_db, b)
       IN /\ c.resp.status = 201
          /\ c.log.id = Largest(Keys(items_db)) + 1
          /\ Keys(c.db) = Keys(items_db) \cup {c.log.id}
          /\ GetItem(c.db, c.log.id) = ParseItem(b)
  /\ Succeeded("create", 201) =>
       /\ last.log.id = Largest(Keys(items_db))
       /\ Keys(items_db) = {1} \/ (last.log.id - 1) \in Keys(items_db)

\* C8 as stated: create stores under max + 1; after the entry with the highest
\* ID m is deleted the next create is stored under m again; after an entry
\* that is not the highest is deleted the next create does not reuse its ID.
C8_Original ==
  /\ CreateUsesMaxPlusOne
  /\ DeletedHighest => new_id(items_db) = last.id
  /\ DeletedLower => new_id(items_db) # last.id

\* C8, amended: create stores under max + 1; after the entry with the highest
\* ID m is deleted the next create is stored under (largest remaining ID, or
\* 0) + 1, which is at most m and is m again exactly when m = 1 or ID m - 1 is
\* still in the store; after an entry that is not the highest is deleted the
\* next create does not reuse its ID.
C8_ReuseAfterDelete ==
  /\ CreateUsesMaxPlusOne
  /\ DeletedHighest =>
       /\ new_id(items_db) = Largest(Keys(items_db)) + 1
       /\ new_id(items_db) <= last.id
       /\ new_id(items_db) = last.id
            <=> (last.id = 1 \/ (last.id - 1) \in Keys(items_db))
  /\ DeletedLower => new_id(items_db) > last.id

C8_Witness ==
  /\ DeletedHighest
  /\ items_db # <<>>
  /\ new_id(items_db) < last.id

\* C9: without a lock between lines 80 and 81 a lost insert is reachable: two
\* creates compute the same ID and the store holds fewer entries than creates
\* minus deletes; as long as no thread has run while another was between the
\* two lines (every handler atomic), the store holds exactly creates minus
\* deletes entries.
C9_AtomicNoLostInsert == ~raced => Len(items_db) = net

\* Two creates and nothing else have completed, and one entry is left: both
\* inserted under the same ID.
C9_Witness ==
  /\ raced
  /\ pure
  /\ Len(run) = 2
  /\ net = 2
  /\ Len(items_db) = 1
  /\ \A t \in Threads : pc[t] = "idle"

\* C10: a request changes the store at most at its own key.  A successful
\* create adds one key that was not there and touches no other entry, a
\* successful update changes only the value under id, a successful delete
\* removes only id; list, get, health, root and every 404 change nothing.
C10_Frame ==
  [][LET op == last'.op
         status == last'.resp.status
         id == last'.id
         Same(S) == \A k \in S : GetItem(items_db', k) = GetItem(items_db, k)
     IN /\ (op = "create" /\ status = 201) =>
             /\ last'.log.id \notin Keys(items_db)
             /\ Keys(items_db') = Keys(items_db) \cup {last'.log.id}
             /\ Len(items_db') = Len(items_db) + 1
             /\ Same(Keys(items_db))
        /\ (op = "update" /\ status = 200) =>
             /\ Keys(items_db') = Keys(items_db)
             /\ Len(items_db') = Len(items_db)
             /\ Same(Keys(items_db) \ {id})
        /\ (op = "delete" /\ status = 200) =>
             /\ id \in Keys(items_db)
             /\ Keys(items_db') = Keys(items_db) \ {id}
             /\ Len(items_db') = Len(items_db) - 1
             /\ Same(Keys(items_db) \ {id})
        /\ (op \in {"list", "get", "health", "root"} \/ status = 404) =>
             items_db' = items_db]_vars

C10_Witness ==
  /\ Succeeded("create", 201)
  /\ Len(items_db) >= 2
  /\ last.log.id > Len(items_db)

====
